---- MODULE Spec2Model ----
(***************************************************************************)
(* Property synchronisation of the Tasmota adapter: the light properties   *)
(* (light.ts: PollingProperty, WritableProperty, OnOffProperty,            *)
(* ColorProperty, BrightnessProperty, ColorTemperatureProperty,            *)
(* ColorModeProperty and the light variants), the plug's OnOffProperty     *)
(* (power-plug.ts: setValue, updateValue) and the channel probe            *)
(* (getAvailableChannels, isAvailable).                                    *)
(*                                                                         *)
(* JavaScript values are tagged tuples, so that values of different types  *)
(* compare unequal instead of being incomparable.  A request is in flight  *)
(* from the call of getStatus/setStatus until the continuation after the   *)
(* awaits runs; the device's answer is chosen when that continuation runs. *)
(* A notification is one call of Property.setCachedValueAndNotify.         *)
(***************************************************************************)
EXTENDS Integers, Sequences, FiniteSets, TLC

\* ------------------------------------------------------------------------
\* Bounds of the model
\* ------------------------------------------------------------------------
\* requests (status reads and commands together) that may be outstanding
MaxInFlight == 2
\* successful plug polls recorded in pollLog
MaxPolls == 3
\* properties of one light that the timers and the gateway exercise
MaxExercised == 1

\* ------------------------------------------------------------------------
\* JavaScript values
\* ------------------------------------------------------------------------
Undefined == <<"undefined">>
NaN == <<"NaN">>
Bool(b) == <<"boolean", b>>
Num(n) == <<"number", n>>
Str(s) == <<"string", s>>

IsStr(v) == v[1] = "string"
IsNum(v) == v[1] = "number"

\* value ? a : b   and   x || y   on the values the model uses
Truthy(v) ==
    CASE v[1] = "boolean" -> v[2]
      [] v[1] = "string" -> v[2] # ""
      [] v[1] = "number" -> v[2] # 0
      [] OTHER -> FALSE

\* String.prototype.substring(from, to) for 0 <= from <= to
Substring(s, from, to) ==
    LET f == IF from > Len(s) THEN Len(s) ELSE from
        t == IF to > Len(s) THEN Len(s) ELSE to
    IN  IF f >= t THEN "" ELSE SubSeq(s, f + 1, t)

\* String.prototype.repeat(3)
Repeat3(s) == s \o s \o s

LowerChar(c) ==
    CASE c = "A" -> "a" [] c = "B" -> "b" [] c = "C" -> "c"
      [] c = "D" -> "d" [] c = "E" -> "e" [] c = "F" -> "f"
      [] OTHER -> c

\* String.prototype.toLowerCase() on hex strings
RECURSIVE ToLowerCase(_)
ToLowerCase(s) ==
    IF Len(s) = 0 THEN ""
    ELSE LowerChar(SubSeq(s, 1, 1)) \o ToLowerCase(Substring(s, 1, Len(s)))

\* ------------------------------------------------------------------------
\* Transport: what getStatus / setStatus and response.json() can produce
\* ------------------------------------------------------------------------
\* a parsed JSON object is a function from keys to values
EmptyObj == [k \in {} |-> Undefined]
Obj1(k, v) == [x \in {k} |-> v]
Obj2(k1, v1, k2, v2) == [x \in {k1, k2} |-> IF x = k1 THEN v1 ELSE v2]

\* obj.key / obj[key] on a parsed object
Get(obj, key) == IF key \in DOMAIN obj THEN obj[key] ELSE Undefined

\* the request was rejected (network failure, timeout)
TransportError == [kind |-> "reject"]
\* response.json() rejected (body is not JSON)
ParseError(st) == [kind |-> "badjson", status |-> st]
\* the body is the JSON literal null
JsonNull(st) == [kind |-> "null", status |-> st]
JsonObj(st, o) == [kind |-> "object", status |-> st, body |-> o]

NoResponse == [kind |-> "none"]
\* the record of a step in `last`
Step(op, prop, input) == [op |-> op, prop |-> prop, input |-> input]

\* a status read whose awaits both settle with a value
Parsed(r) == r.kind \in {"null", "object"}

\* ------------------------------------------------------------------------
\* State
\* ------------------------------------------------------------------------
VARIABLES
    \* light (light.ts)
    variant,                 \* which device class was constructed
    properties,              \* keys of Device.properties
    intervals,               \* setInterval registrations, per light property
    useWhiteLedInColorMode,  \* manifest.moziot.config.experimental flag
    value,                   \* Property.value of each light property
    channels,                \* ColorProperty.channels
    polls,                   \* status reads in flight, per light property
    setPending,              \* setValue suspended at `await super.setValue`
    cmds,                    \* commands in flight, per light property
    exercised,               \* the light properties polled or written so far
    \* what the last step emitted
    notified,                \* properties whose setCachedValueAndNotify ran
    sent,                    \* commands handed to setStatus
    logged,                  \* kinds of debug() messages
    asked,                   \* commands handed to getStatus
    unhandled,               \* promises that rejected with no handler
    sameValue,               \* setCachedValueAndNotify got the cached value
    last                     \* the operation that step was, and its input

lightVars == <<variant, properties, intervals, useWhiteLedInColorMode, value,
               channels, polls, setPending, cmds, exercised>>
outVars == <<notified, sent, logged, asked, unhandled, sameValue, last>>

\* plug (power-plug.ts)
VARIABLES
    onOffProperties,   \* PowerPlug.onOffProperties: <<[id, channel], ...>>
    plugIntervals,     \* setInterval registrations of PowerPlug.startPolling
    plugValue,         \* Property.value of each of them
    lastState,         \* OnOffProperty.lastState of each of them
    plugPolls,         \* updateValue calls in flight, per property
    plugPending,       \* setValue suspended at `await super.setValue`
    plugCmds,          \* commands in flight, per property
    pollLog,           \* the polls that computed a value, in the order
                       \* their responses were processed
    powerProperties,   \* Property.value of the voltage, current, power and
                       \* temperature property, for those that exist
    dataReads          \* getData calls of PowerPlug.poll in flight

plugVars == <<onOffProperties, plugIntervals, plugValue, lastState, plugPolls,
              plugPending, plugCmds, pollLog, powerProperties, dataReads>>

\* channel probe (OnOffProperty.getAvailableChannels)
VARIABLES
    probePc,        \* "probing", "returned", "rejected" or "constructed"
    probeI,         \* the loop variable i
    probeChannels,  \* the local array channels / the returned sequence
    probeAsked,     \* the commands handed to getStatus so far
    probeAnswers    \* what each of them came back with

probeVars == <<probePc, probeI, probeChannels, probeAsked, probeAnswers>>

\* ------------------------------------------------------------------------
\* Light: device variants and their properties
\* ------------------------------------------------------------------------
LightIds == {"on", "brightness", "color", "colorTemperature", "colorMode"}
\* the properties built on WritableProperty
Writable == {"on", "brightness", "color", "colorTemperature"}

Variants == {"DimmableLight", "ColorTemperatureLight", "ColorLight",
             "ColorCtLight"}

DimmableLightProps == {"on", "brightness"}
ColorTemperatureLightProps == DimmableLightProps \cup {"colorTemperature"}
ColorLightProps == DimmableLightProps \cup {"color"}
\* mutant: the constructor does not add the Color Mode property
ColorCtLightPropsNoColorMode == ColorLightProps \cup {"colorTemperature"}

ColorCtLightProps == ColorLightProps \cup {"colorTemperature", "colorMode"}

\* keys of this.properties after the constructor chain of the variant
PropsOf(v) ==
    CASE v = "DimmableLight" -> DimmableLightProps
      [] v = "ColorTemperatureLight" -> ColorTemperatureLightProps
      [] v = "ColorLight" -> ColorLightProps
      [] v = "ColorCtLight" -> ColorCtLightProps
      [] OTHER -> {}       \* a PowerPlug has none of the light properties

\* ------------------------------------------------------------------------
\* Colour temperature conversion (ct-conversion.ts)
\* ------------------------------------------------------------------------
Round(num, den) == (2 * num + den) \div (2 * den)
kelvinToTasmota(kelvin) == Round(1000000, kelvin)
tasmotaToKelvin(tasmota) == Round(1000000, tasmota)

Throws == <<"throw">>
\* what tasmotaToKelvin(x) can evaluate to; on undefined the arithmetic
\* yields NaN unless the function rejects its argument
TasmotaToKelvinResults(v) ==
    IF IsNum(v) /\ v[2] > 0 THEN {Num(tasmotaToKelvin(v[2]))}
    ELSE {NaN, Throws}

\* ------------------------------------------------------------------------
\* Light: the poll callbacks.  Each gives the set of possible outcomes of
\* the continuation that runs once getStatus and response.json() settled
\* with r: the values passed to this.update (none when the callback ends
\* without calling it) and the new ColorProperty.channels.
\* ------------------------------------------------------------------------
NoUpdate(ch) == [updates |-> <<>>, channels |-> ch]
Update(v, ch) == [updates |-> <<v>>, channels |-> ch]

\* mutant: a failed read is taken for OFF
OnOffPollFailureIsOff(r, ch) ==
    IF r.kind = "object"
    THEN {Update(Bool(Get(r.body, "POWER") = Str("ON")), ch)}
    ELSE {Update(Bool(FALSE), ch)}

OnOffPoll(r, ch) ==
    IF r.kind = "object"
    THEN {Update(Bool(Get(r.body, "POWER") = Str("ON")), ch)}
    ELSE {NoUpdate(ch)}     \* rejected await, or result.POWER on null

BrightnessPoll(r, ch) ==
    IF r.kind = "object"
    THEN {Update(Get(r.body, "Dimmer"), ch)}
    ELSE {NoUpdate(ch)}

\* rgbColor of the Color poll callback
DisplayRgb(color) ==
    LET rgbColor == Substring(color, 0, 6)
    IN  IF rgbColor = "000000" /\ Len(color) = 8
        THEN Repeat3(Substring(color, 6, 8))
        ELSE rgbColor

\* mutant: every read sets the width anew
InferChannelsEveryRead(ch, color) == Len(color) \div 2

\* this.channels after `if (this.channels == 0) this.channels = length / 2`
InferChannels(ch, color) == IF ch = 0 THEN Len(color) \div 2 ELSE ch

ColorPoll(r, ch) ==
    IF Parsed(r)
    THEN LET c == IF r.kind = "object" THEN Get(r.body, "Color")
                  ELSE Undefined                      \* result?.Color
             color == IF Truthy(c) THEN c[2] ELSE ""  \* || ""
         IN  {Update(Str("#" \o ToLowerCase(DisplayRgb(color))),
                     InferChannels(ch, color))}
    ELSE {NoUpdate(ch)}

ColorTemperaturePoll(r, ch) ==
    IF r.kind = "object"                              \* if (result)
    THEN {IF k = Throws THEN NoUpdate(ch) ELSE Update(k, ch) :
              k \in TasmotaToKelvinResults(Get(r.body, "CT"))}
    ELSE {NoUpdate(ch)}

\* mutant: the Color Mode callback sets the channel width as the Color
\* callback does
ColorModePollInfersChannels(r, ch) ==
    IF r.kind = "object" /\ IsStr(Get(r.body, "Color"))
    THEN LET rgb == Substring(Get(r.body, "Color")[2], 0, 6)
         IN  {Update(Str(IF rgb # "000000" THEN "color" ELSE "temperature"),
                     InferChannels(ch, Get(r.body, "Color")[2]))}
    ELSE {NoUpdate(ch)}

ColorModePoll(r, ch) ==
    IF r.kind = "object" /\ IsStr(Get(r.body, "Color"))
    THEN LET rgb == Substring(Get(r.body, "Color")[2], 0, 6)
         IN  {Update(Str(IF rgb # "000000" THEN "color" ELSE "temperature"),
                     ch)}
    ELSE {NoUpdate(ch)}     \* rejected await, or substring of undefined

\* a callback that calls no update has thrown, and the promise of
\* `() => this.poll()` rejects, unless it is the Color Temperature callback
\* skipping a null result at `if (result)`
PollReturns(p, r) == p = "colorTemperature" /\ r.kind = "null"

PollOutcomes(p, r, ch) ==
    CASE p = "on" -> OnOffPoll(r, ch)
      [] p = "brightness" -> BrightnessPoll(r, ch)
      [] p = "color" -> ColorPoll(r, ch)
      [] p = "colorTemperature" -> ColorTemperaturePoll(r, ch)
      [] p = "colorMode" -> ColorModePoll(r, ch)

\* the command key each poll callback passes to getStatus
StatusCommand(p) ==
    CASE p = "on" -> "Power"
      [] p = "brightness" -> "Dimmer"
      [] p = "color" -> "Color"
      [] p = "colorTemperature" -> "CT"
      [] p = "colorMode" -> "Color"

\* ------------------------------------------------------------------------
\* Light: the set callbacks (the command each hands to setStatus)
\* ------------------------------------------------------------------------
Command(c, payload) == [command |-> c, payload |-> payload]

\* mutant: the rewrite does not look at the inferred channel width
ColorPayloadIgnoresWidth(v, ch, useWhite) ==
    LET grey == "#" \o Repeat3(Substring(v, 1, 3))
    IN  IF useWhite /\ v = grey
        THEN "#000000" \o Substring(v, 1, 3)
        ELSE v

\* ColorProperty set callback: the value after the white-LED rewrite
ColorPayload(v, ch, useWhite) ==
    LET grey == "#" \o Repeat3(Substring(v, 1, 3))
    IN  IF useWhite /\ ch > 3 /\ v = grey
        THEN "#000000" \o Substring(v, 1, 3)
        ELSE v

SetCommand(p, v, ch, useWhite) ==
    CASE p = "on" -> Command("Power", IF Truthy(v) THEN "ON" ELSE "OFF")
      [] p = "color" -> Command("Color", ColorPayload(v[2], ch, useWhite))
      [] p = "brightness" -> Command("Dimmer", ToString(v[2]))
      [] p = "colorTemperature" ->
             Command("CT", ToString(kelvinToTasmota(v[2])))

\* kinds of debug() messages of the response inspection that follows
\* `await setStatus(...)`, shared by all set callbacks and the plug
InspectResult(r) ==
    IF r.kind = "reject" THEN {}
    ELSE IF r.status # 200 THEN {"status"}
    ELSE IF r.kind # "object" THEN {}       \* json() rejects, or null.WARNING
    ELSE IF Truthy(Get(r.body, "WARNING"))
         THEN {"warning"} \cup
              (IF Truthy(Get(r.body, "Command")) THEN {"command"} ELSE {})
         ELSE {}

\* whether the promise of the code that follows `await setStatus(...)`
\* rejects: setStatus or result.json() rejected, or json is null and
\* json.WARNING throws
SetRejects(r) == r.kind = "reject" \/ (r.status = 200 /\ r.kind # "object")

\* whether Property.setValue caches the value: it rejects a number outside
\* the property description's minimum..maximum
Accepts(p, v) ==
    p = "colorTemperature" => (v[2] >= 2700 /\ v[2] <= 6500)

\* ------------------------------------------------------------------------
\* Inputs
\* ------------------------------------------------------------------------
\* values the gateway writes
WriteValues(p) ==
    CASE p = "on" -> {Bool(TRUE), Bool(FALSE)}
      [] p = "brightness" -> {Num(100)}
      [] p = "color" -> {Str("#808080"), Str("#800000"), Str("#aaAAaa")}
      [] p = "colorTemperature" -> {Num(2700), Num(7000)}

\* bodies the device answers a status read with
StatusBodies(p) ==
    CASE p = "on" -> {Obj1("POWER", Str("ON")), Obj1("POWER", Str("OFF"))}
      [] p = "brightness" -> {Obj1("Dimmer", Num(50))}
      [] p \in {"color", "colorMode"} ->
             {Obj1("Color", Str("00FF00")), Obj1("Color", Str("00000080"))}
      [] p = "colorTemperature" -> {Obj1("CT", Num(370))}

\* what a status read can come back with
StatusResponses(p) ==
    {TransportError, ParseError(200), JsonNull(200), JsonObj(200, EmptyObj)}
        \cup {JsonObj(200, b) : b \in StatusBodies(p)}

\* what a command can come back with
CommandResponses ==
    {TransportError, ParseError(200), JsonNull(200),
     JsonObj(500, EmptyObj),
     JsonObj(200, EmptyObj),
     JsonObj(200, Obj1("WARNING", Str("Need user=<username>"))),
     JsonObj(200, Obj2("WARNING", Str("Enable weblog 2"),
                       "Command", Str("Unknown")))}

\* ------------------------------------------------------------------------
\* Light: actions
\* ------------------------------------------------------------------------
\* the sets of properties one behaviour exercises: up to MaxExercised of
\* them, or the two that read the same status field
Exercisable(ps) ==
    Cardinality(ps) <= MaxExercised \/ ps \subseteq {"color", "colorMode"}

LightInFlight ==
    polls["on"] + polls["brightness"] + polls["color"]
        + polls["colorTemperature"] + polls["colorMode"]
        + cmds["on"] + cmds["brightness"] + cmds["color"]
        + cmds["colorTemperature"]

LightInit ==
    /\ variant \in Variants
    /\ properties = PropsOf(variant)
    /\ intervals = [p \in LightIds |-> 0]
    /\ useWhiteLedInColorMode \in BOOLEAN
    /\ value = [p \in LightIds |-> Undefined]
    /\ channels = 0
    /\ polls = [p \in LightIds |-> 0]
    /\ setPending = <<>>
    /\ cmds = [p \in Writable |-> 0]
    /\ exercised = {}
    /\ notified = {}
    /\ sent = <<>>
    /\ logged = {}
    /\ last = Step("constructor", "", NoResponse)
    /\ asked = <<>>
    /\ unhandled = {}
    /\ sameValue = FALSE

\* PollingProperty.startPolling: one more interval runs this.poll()
Register(t, p) == [t EXCEPT ![p] = @ + 1]

\* startPolling of each device class; `super.startPolling` is the call of
\* the parent's definition
DimmableLightStartPolling(t) == Register(Register(t, "on"), "brightness")

ColorTemperatureLightStartPolling(t) ==
    Register(DimmableLightStartPolling(t), "colorTemperature")

\* mutant: the override leaves out super.startPolling
ColorLightStartPollingOwnOnly(t) == Register(t, "color")

ColorLightStartPolling(t) == Register(DimmableLightStartPolling(t), "color")

ColorCtLightStartPolling(t) ==
    Register(Register(ColorLightStartPolling(t), "colorTemperature"),
             "colorMode")

\* the adapter starts the polling of a device once (one repeating timer
\* per device)
PollingStarted == \E p \in LightIds : intervals[p] > 0

\* device.startPolling(intervalMs), dispatched on the class of the device
StartPolling ==
    /\ setPending = <<>>
    /\ variant \in Variants
    /\ ~PollingStarted
    /\ intervals' =
           CASE variant = "DimmableLight" -> DimmableLightStartPolling(intervals)
             [] variant = "ColorTemperatureLight" ->
                    ColorTemperatureLightStartPolling(intervals)
             [] variant = "ColorLight" -> ColorLightStartPolling(intervals)
             [] variant = "ColorCtLight" -> ColorCtLightStartPolling(intervals)
    /\ notified' = {}
    /\ sent' = <<>>
    /\ logged' = {}
    /\ asked' = <<>>
    /\ unhandled' = {}
    /\ sameValue' = FALSE
    /\ UNCHANGED <<variant, properties, useWhiteLedInColorMode, value,
                   channels, polls, setPending, cmds, exercised,
                   plugVars, probeVars>>
    /\ last' = Step("StartPolling", "", NoResponse)

\* mutant: a tick is skipped while a poll of the property is outstanding
StartPollIfIdle(p) ==
    /\ setPending = <<>>
    /\ p \in properties
    /\ intervals[p] > 0
    /\ polls[p] = 0
    /\ LightInFlight < MaxInFlight
    /\ Exercisable(exercised \cup {p})
    /\ exercised' = exercised \cup {p}
    /\ polls' = [polls EXCEPT ![p] = @ + 1]
    /\ notified' = {}
    /\ sent' = <<>>
    /\ logged' = {}
    /\ UNCHANGED <<variant, properties, intervals, useWhiteLedInColorMode,
                   value, channels, setPending, cmds,
                   plugVars, probeVars>>
    /\ last' = Step("StartPoll", p, NoResponse)
    /\ asked' = <<StatusCommand(p)>>
    /\ unhandled' = {}
    /\ sameValue' = FALSE

\* a timer tick of PollingProperty.startPolling: the poll callback runs up
\* to `await getStatus(...)`
StartPoll(p) ==
    /\ setPending = <<>>
    /\ p \in properties
    /\ intervals[p] > 0
    /\ LightInFlight < MaxInFlight
    /\ Exercisable(exercised \cup {p})
    /\ exercised' = exercised \cup {p}
    /\ polls' = [polls EXCEPT ![p] = @ + 1]
    /\ notified' = {}
    /\ sent' = <<>>
    /\ logged' = {}
    /\ UNCHANGED <<variant, properties, intervals, useWhiteLedInColorMode, value, channels,
                   setPending, cmds,
                   plugVars, probeVars>>
    /\ last' = Step("StartPoll", p, NoResponse)
    /\ asked' = <<StatusCommand(p)>>
    /\ unhandled' = {}
    /\ sameValue' = FALSE

\* mutant: update notifies only when the value differs from the cached one
PollResponseIfChanged(p, r) ==
    /\ setPending = <<>>
    /\ polls[p] > 0
    /\ polls' = [polls EXCEPT ![p] = @ - 1]
    /\ \E o \in PollOutcomes(p, r, channels) :
          /\ channels' = o.channels
          /\ IF o.updates # <<>>
             THEN /\ value' = [value EXCEPT ![p] = o.updates[1]]
                  /\ notified' = IF o.updates[1] = value[p] THEN {} ELSE {p}
                  /\ sameValue' = (o.updates[1] = value[p])
                  /\ unhandled' = {}
             ELSE /\ value' = value
                  /\ notified' = {}
                  /\ sameValue' = FALSE
                  /\ unhandled' = IF PollReturns(p, r) THEN {} ELSE {"poll"}
    /\ sent' = <<>>
    /\ logged' = {}
    /\ UNCHANGED <<exercised, variant, properties, intervals,
                   useWhiteLedInColorMode, setPending, cmds,
                   plugVars, probeVars>>
    /\ last' = Step("PollResponse", p, r)
    /\ asked' = <<>>

\* the rest of the poll callback, once the status read came back with r
PollResponse(p, r) ==
    /\ setPending = <<>>
    /\ polls[p] > 0
    /\ polls' = [polls EXCEPT ![p] = @ - 1]
    /\ \E o \in PollOutcomes(p, r, channels) :
          /\ channels' = o.channels
          /\ IF o.updates # <<>>
             THEN /\ value' = [value EXCEPT ![p] = o.updates[1]]
                  /\ notified' = {p}
                  /\ sameValue' = (o.updates[1] = value[p])
                  /\ unhandled' = {}
             ELSE /\ value' = value
                  /\ notified' = {}
                  /\ sameValue' = FALSE
                  /\ unhandled' = IF PollReturns(p, r) THEN {} ELSE {"poll"}
    /\ sent' = <<>>
    /\ logged' = {}
    /\ UNCHANGED <<exercised, variant, properties, intervals,
                   useWhiteLedInColorMode, setPending, cmds,
                   plugVars, probeVars>>
    /\ last' = Step("PollResponse", p, r)
    /\ asked' = <<>>

\* mutant: the rejection of super.setValue does not stop setValue
SetValueSendsRejected(p, v) ==
    /\ setPending = <<>>
    /\ p \in Writable \cap properties
    /\ LightInFlight < MaxInFlight
    /\ Exercisable(exercised \cup {p})
    /\ exercised' = exercised \cup {p}
    /\ IF Accepts(p, v)
       THEN /\ value' = [value EXCEPT ![p] = v]
            /\ notified' = {p}
            /\ logged' = {"set"}
       ELSE /\ value' = value
            /\ notified' = {}
            /\ logged' = {"set", "error"}
    /\ setPending' = <<[prop |-> p, value |-> v]>>
    /\ sent' = <<>>
    /\ UNCHANGED <<variant, properties, intervals, useWhiteLedInColorMode,
                   channels, polls, cmds,
                   plugVars, probeVars>>
    /\ last' = Step("SetValue", p, v)
    /\ asked' = <<>>
    /\ unhandled' = {}
    /\ sameValue' = (Accepts(p, v) /\ value[p] = v)

\* WritableProperty.setValue up to the end of `await super.setValue(value)`
SetValue(p, v) ==
    /\ setPending = <<>>
    /\ p \in Writable \cap properties
    /\ LightInFlight < MaxInFlight
    /\ Exercisable(exercised \cup {p})
    /\ exercised' = exercised \cup {p}
    /\ IF Accepts(p, v)
       THEN /\ value' = [value EXCEPT ![p] = v]
            /\ notified' = {p}
            /\ setPending' = <<[prop |-> p, value |-> v]>>
            /\ logged' = {"set"}
       ELSE /\ value' = value
            /\ notified' = {}
            /\ setPending' = <<>>
            /\ logged' = {"set", "error"}
    /\ sent' = <<>>
    /\ UNCHANGED <<variant, properties, intervals, useWhiteLedInColorMode, channels, polls, cmds,
                   plugVars, probeVars>>
    /\ last' = Step("SetValue", p, v)
    /\ asked' = <<>>
    /\ unhandled' = {}
    /\ sameValue' = (Accepts(p, v) /\ value[p] = v)

\* the continuation of setValue: this.set(value) runs up to
\* `await setStatus(...)`
IssueSet ==
    /\ setPending # <<>>
    /\ LET p == setPending[1].prop
           v == setPending[1].value
       IN  /\ sent' = <<SetCommand(p, v, channels, useWhiteLedInColorMode)>>
           /\ cmds' = [cmds EXCEPT ![p] = @ + 1]
    /\ setPending' = <<>>
    /\ notified' = {}
    /\ logged' = {}
    /\ UNCHANGED <<exercised, variant, properties, intervals,
                   useWhiteLedInColorMode, value, channels, polls,
                   plugVars, probeVars>>
    /\ last' = Step("IssueSet", setPending[1].prop, setPending[1].value)
    /\ asked' = <<>>
    /\ unhandled' = {}
    /\ sameValue' = FALSE

\* mutant: a command the device did not accept rolls the cache back
CommandResponseRollsBack(p, r) ==
    /\ setPending = <<>>
    /\ cmds[p] > 0
    /\ cmds' = [cmds EXCEPT ![p] = @ - 1]
    /\ logged' = InspectResult(r)
    /\ value' = IF logged' # {} THEN [value EXCEPT ![p] = Undefined] ELSE value
    /\ notified' = IF logged' # {} THEN {p} ELSE {}
    /\ sent' = <<>>
    /\ UNCHANGED <<exercised, variant, properties, intervals,
                   useWhiteLedInColorMode, channels, polls,
                   setPending, plugVars, probeVars>>
    /\ last' = Step("CommandResponse", p, r)
    /\ asked' = <<>>
    /\ unhandled' = IF SetRejects(r) THEN {"set"} ELSE {}
    /\ sameValue' = FALSE

\* the rest of the set callback, once the command came back with r
CommandResponse(p, r) ==
    /\ setPending = <<>>
    /\ cmds[p] > 0
    /\ cmds' = [cmds EXCEPT ![p] = @ - 1]
    /\ logged' = InspectResult(r)
    /\ notified' = {}
    /\ sent' = <<>>
    /\ UNCHANGED <<exercised, variant, properties, intervals,
                   useWhiteLedInColorMode, value, channels, polls,
                   setPending,
                   plugVars, probeVars>>
    /\ last' = Step("CommandResponse", p, r)
    /\ asked' = <<>>
    /\ unhandled' = IF SetRejects(r) THEN {"set"} ELSE {}
    /\ sameValue' = FALSE

LightNext ==
    \/ StartPolling
    \/ \E p \in LightIds : StartPoll(p)
    \/ \E p \in LightIds : \E r \in StatusResponses(p) : PollResponse(p, r)
    \/ \E p \in Writable : \E v \in WriteValues(p) : SetValue(p, v)
    \/ IssueSet
    \/ \E p \in Writable : \E r \in CommandResponses : CommandResponse(p, r)

\* ------------------------------------------------------------------------
\* Plug: OnOffProperty of power-plug.ts
\* ------------------------------------------------------------------------
\* the properties the PowerPlug constructor creates
PlugOnOffProperties(multiChannelRelay, chs) ==
    IF multiChannelRelay /\ Len(chs) > 0
    THEN [k \in 1..Len(chs) |->
             [id |-> IF chs[k] = 1 THEN "on" ELSE "on" \o ToString(chs[k]),
              channel |-> ToString(chs[k])]]
    ELSE <<[id |-> "on", channel |-> ""]>>

\* probe results the constructor is called with
ProbedChannels == {<<>>, <<1>>}

\* `Power${this.channel}`
PowerCommand(channel) == "Power" \o channel

\* bodies the device answers the status read of a channel with
PlugStatusBodies(channel) ==
    {Obj1("POWER", Str("ON")), Obj1("POWER", Str("OFF"))}
        \cup (IF channel = "" THEN {}
              ELSE {Obj1("POWER" \o channel, Str("ON"))})

PlugStatusResponses(channel) ==
    {TransportError, ParseError(200), JsonNull(200), JsonObj(200, EmptyObj)}
        \cup {JsonObj(200, b) : b \in PlugStatusBodies(channel)}

PlugIdx == DOMAIN onOffProperties

RECURSIVE SumTo(_, _)
SumTo(f, n) == IF n = 0 THEN 0 ELSE f[n] + SumTo(f, n - 1)

PlugInFlight ==
    SumTo(plugPolls, Len(onOffProperties))
        + SumTo(plugCmds, Len(onOffProperties))

\* the key of the telemetry sample the temperature property is fed from
TemperatureName == "Temperature"

\* findTemperatureProperty(data): the name of the sample's temperature
\* entry, "" for undefined
findTemperatureProperty(data) ==
    IF TemperatureName \in DOMAIN data THEN TemperatureName ELSE ""

\* data['Voltage'], data['Current'], data['Power'],
\* data[this.temperatureProperty.dataName]
DataKey(n) ==
    CASE n = "voltage" -> "Voltage"
      [] n = "current" -> "Current"
      [] n = "power" -> "Power"
      [] n = "temperature" -> TemperatureName

\* what getData resolves with: a mapping from telemetry name to its value
Sample(body) == [kind |-> "sample", body |-> body]

\* the telemetry properties the constructor creates for its data
PowerPropertiesOf(data, temperatureSensor) ==
    {n \in {"voltage", "current", "power"} : DataKey(n) \in DOMAIN data}
        \cup (IF temperatureSensor /\ findTemperatureProperty(data) # ""
              THEN {"temperature"} ELSE {})

\* updatePowerProperties: the caches after the sample data was applied
UpdatedPowerProperties(pp, data) ==
    [n \in DOMAIN pp |->
        IF DataKey(n) \in DOMAIN data THEN data[DataKey(n)] ELSE pp[n]]

\* `temperatureData.value` of an entry the sample does not have
TemperatureDataUndefined(pp, data) ==
    /\ "temperature" \in DOMAIN pp
    /\ DataKey("temperature") \notin DOMAIN data

\* the samples a device answers getData with: the entries its properties
\* are fed from, all of them or all but one, with a fresh value
PollSamples ==
    LET keys == {DataKey(n) : n \in DOMAIN powerProperties}
    IN  {[k \in K |-> Num(2)] : K \in {keys} \cup {keys \ {x} : x \in keys}}

DataResponses == {TransportError} \cup {Sample(b) : b \in PollSamples}

\* the state new PowerPlug(...) leaves for the On/Off properties props,
\* the initial sample data and the temperatureSensor flag
PlugConstructed(props, data, temperatureSensor) ==
    /\ onOffProperties = props
    /\ powerProperties =
           [n \in PowerPropertiesOf(data, temperatureSensor) |->
               data[DataKey(n)]]
    /\ dataReads = 0
    /\ plugIntervals = 0
    /\ plugValue = [k \in PlugIdx |-> Undefined]
    /\ lastState = [k \in PlugIdx |-> Undefined]
    /\ plugPolls = [k \in PlugIdx |-> 0]
    /\ plugPending = <<>>
    /\ plugCmds = [k \in PlugIdx |-> 0]
    /\ pollLog = <<>>
    /\ notified = PowerPropertiesOf(data, temperatureSensor)
    /\ sent = <<>>
    /\ logged = {}
    /\ last = Step("constructor", "", NoResponse)
    /\ asked = <<>>
    /\ unhandled = {}
    /\ sameValue = FALSE

\* a plug without telemetry
PlugInit ==
    \E m \in BOOLEAN, chs \in ProbedChannels :
        PlugConstructed(PlugOnOffProperties(m, chs), <<>>, FALSE)

\* the initial sample of a plug with every kind of telemetry
InitialSample ==
    [k \in {"Voltage", "Current", "Power", TemperatureName} |-> Num(1)]

\* a plug with telemetry, with and without the temperature property
CycleInit ==
    \E chs \in {<<>>, <<2, 3>>}, temperatureSensor \in BOOLEAN :
        PlugConstructed(PlugOnOffProperties(TRUE, chs), InitialSample,
                        temperatureSensor)

\* PowerPlug.startPolling: one more interval runs this.poll()
PlugStartPolling ==
    /\ plugPending = <<>>
    /\ onOffProperties # <<>>
    /\ plugIntervals = 0        \* the adapter starts the polling once
    /\ plugIntervals' = plugIntervals + 1
    /\ notified' = {}
    /\ sent' = <<>>
    /\ logged' = {}
    /\ asked' = <<>>
    /\ unhandled' = {}
    /\ sameValue' = FALSE
    /\ UNCHANGED <<onOffProperties, plugValue, lastState, plugPolls,
                   plugPending, plugCmds, pollLog, powerProperties, dataReads,
                   lightVars, probeVars>>
    /\ last' = Step("PlugStartPolling", "", NoResponse)

\* a timer tick runs PowerPlug.poll up to `await getData(this.host)`:
\* updateValue of every On/Off property up to its `await getStatus(...)`,
\* none of them awaited, then the telemetry read
PlugPoll ==
    /\ plugPending = <<>>
    /\ plugIntervals > 0
    /\ PlugInFlight < MaxInFlight
    /\ dataReads < MaxInFlight
    /\ Len(pollLog) + SumTo(plugPolls, Len(onOffProperties))
           + Len(onOffProperties) <= MaxPolls
    /\ plugPolls' = [k \in PlugIdx |-> plugPolls[k] + 1]
    /\ dataReads' = dataReads + 1
    /\ notified' = {}
    /\ sent' = <<>>
    /\ logged' = {}
    /\ UNCHANGED <<onOffProperties, plugIntervals, plugValue, lastState,
                   plugPending, plugCmds, pollLog, powerProperties,
                   lightVars, probeVars>>
    /\ last' = Step("PlugPoll", "", NoResponse)
    /\ asked' = [k \in PlugIdx |-> PowerCommand(onOffProperties[k].channel)]
    /\ unhandled' = {}
    /\ sameValue' = FALSE

\* the rest of PowerPlug.poll, once getData came back with d:
\* updatePowerProperties(data), or the rejection of the await
UpdatePowerProperties(d) ==
    /\ plugPending = <<>>
    /\ dataReads > 0
    /\ dataReads' = dataReads - 1
    /\ IF d.kind = "sample"
       THEN /\ powerProperties' =
                   UpdatedPowerProperties(powerProperties, d.body)
            /\ notified' = {n \in DOMAIN powerProperties :
                                DataKey(n) \in DOMAIN d.body}
            /\ unhandled' =
                   IF TemperatureDataUndefined(powerProperties, d.body)
                   THEN {"poll"} ELSE {}
            /\ sameValue' = \E n \in DOMAIN powerProperties :
                                /\ DataKey(n) \in DOMAIN d.body
                                /\ powerProperties[n] = d.body[DataKey(n)]
       ELSE /\ UNCHANGED powerProperties
            /\ notified' = {}
            /\ unhandled' = {"poll"}
            /\ sameValue' = FALSE
    /\ sent' = <<>>
    /\ logged' = {}
    /\ UNCHANGED <<onOffProperties, plugIntervals, plugValue, lastState,
                   plugPolls, plugPending, plugCmds, pollLog,
                   lightVars, probeVars>>
    /\ last' = Step("UpdatePowerProperties", "", d)
    /\ asked' = <<>>

\* mutant: the value read is never remembered
RememberStateForgets(ls, k, v) == ls

\* this.lastState = value
RememberState(ls, k, v) == [ls EXCEPT ![k] = v]

\* mutant: a failed status read ends the cycle, the reads still in flight
\* are dropped
UpdateValueResponseEndsCycle(k, r) ==
    /\ plugPending = <<>>
    /\ k \in PlugIdx
    /\ plugPolls[k] > 0
    /\ plugPolls' = IF r.kind = "object"
                    THEN [plugPolls EXCEPT ![k] = @ - 1]
                    ELSE [j \in PlugIdx |-> 0]
    /\ dataReads' = IF r.kind = "object" THEN dataReads ELSE 0
    /\ unhandled' = IF r.kind = "object" THEN {} ELSE {"updateValue"}
    /\ sameValue' = /\ r.kind = "object"
                    /\ lastState[k] # Bool(Get(r.body, "POWER") = Str("ON"))
                    /\ plugValue[k] = Bool(Get(r.body, "POWER") = Str("ON"))
    /\ IF r.kind = "object"
       THEN LET v == Bool(Get(r.body, "POWER") = Str("ON"))
                changed == lastState[k] # v
            IN  /\ IF changed
                   THEN /\ lastState' = RememberState(lastState, k, v)
                        /\ plugValue' = [plugValue EXCEPT ![k] = v]
                        /\ notified' = {onOffProperties[k].id}
                        /\ logged' = {"changed"}
                   ELSE /\ UNCHANGED <<lastState, plugValue>>
                        /\ notified' = {}
                        /\ logged' = {}
                /\ pollLog' = Append(pollLog,
                       [prop |-> k, read |-> v[2], notified |-> changed])
       ELSE /\ UNCHANGED <<lastState, plugValue, pollLog>>
            /\ notified' = {}
            /\ logged' = {}
    /\ sent' = <<>>
    /\ UNCHANGED <<powerProperties, onOffProperties,
                   plugIntervals, plugPending, plugCmds,
                   lightVars, probeVars>>
    /\ last' = Step("UpdateValueResponse", k, r)
    /\ asked' = <<>>

\* the rest of updateValue, once the status read came back with r
UpdateValueResponse(k, r) ==
    /\ plugPending = <<>>
    /\ k \in PlugIdx
    /\ plugPolls[k] > 0
    /\ plugPolls' = [plugPolls EXCEPT ![k] = @ - 1]
    /\ unhandled' = IF r.kind = "object" THEN {} ELSE {"updateValue"}
    /\ sameValue' = /\ r.kind = "object"
                    /\ lastState[k] # Bool(Get(r.body, "POWER") = Str("ON"))
                    /\ plugValue[k] = Bool(Get(r.body, "POWER") = Str("ON"))
    /\ IF r.kind = "object"
       THEN LET v == Bool(Get(r.body, "POWER") = Str("ON"))
                changed == lastState[k] # v
            IN  /\ IF changed
                   THEN /\ lastState' = RememberState(lastState, k, v)
                        /\ plugValue' = [plugValue EXCEPT ![k] = v]
                        /\ notified' = {onOffProperties[k].id}
                        /\ logged' = {"changed"}
                   ELSE /\ UNCHANGED <<lastState, plugValue>>
                        /\ notified' = {}
                        /\ logged' = {}
                /\ pollLog' = Append(pollLog,
                       [prop |-> k, read |-> v[2], notified |-> changed])
       ELSE /\ UNCHANGED <<lastState, plugValue, pollLog>>
            /\ notified' = {}
            /\ logged' = {}
    /\ sent' = <<>>
    /\ UNCHANGED <<powerProperties, dataReads, onOffProperties,
                   plugIntervals, plugPending, plugCmds,
                   lightVars, probeVars>>
    /\ last' = Step("UpdateValueResponse", k, r)
    /\ asked' = <<>>

\* OnOffProperty.setValue up to the end of `await super.setValue(value)`
PlugSetValue(k, v) ==
    /\ plugPending = <<>>
    /\ k \in PlugIdx
    /\ PlugInFlight < MaxInFlight
    /\ plugValue' = [plugValue EXCEPT ![k] = v]
    /\ notified' = {onOffProperties[k].id}
    /\ plugPending' = <<[prop |-> k, value |-> v]>>
    /\ logged' = {"set"}
    /\ sent' = <<>>
    /\ UNCHANGED <<powerProperties, dataReads, onOffProperties, plugIntervals, lastState, plugPolls, plugCmds, pollLog,
                   lightVars, probeVars>>
    /\ last' = Step("PlugSetValue", k, v)
    /\ asked' = <<>>
    /\ unhandled' = {}
    /\ sameValue' = (plugValue[k] = v)

\* setValue from the await up to `await setStatus(...)`
PlugIssueSet ==
    /\ plugPending # <<>>
    /\ LET k == plugPending[1].prop
           v == plugPending[1].value
       IN  /\ sent' = <<Command(PowerCommand(onOffProperties[k].channel),
                                IF Truthy(v) THEN "ON" ELSE "OFF")>>
           /\ plugCmds' = [plugCmds EXCEPT ![k] = @ + 1]
    /\ plugPending' = <<>>
    /\ notified' = {}
    /\ logged' = {}
    /\ UNCHANGED <<powerProperties, dataReads, onOffProperties, plugIntervals, plugValue, lastState, plugPolls, pollLog,
                   lightVars, probeVars>>
    /\ last' = Step("PlugIssueSet", plugPending[1].prop, plugPending[1].value)
    /\ asked' = <<>>
    /\ unhandled' = {}
    /\ sameValue' = FALSE

\* the rest of setValue, once the command came back with r; a rejected
\* await lands in the catch block
PlugCommandResponse(k, r) ==
    /\ plugPending = <<>>
    /\ k \in PlugIdx
    /\ plugCmds[k] > 0
    /\ plugCmds' = [plugCmds EXCEPT ![k] = @ - 1]
    /\ logged' = InspectResult(r) \cup
                 (IF r.kind = "reject" \/ (r.status = 200 /\ r.kind # "object")
                  THEN {"error"} ELSE {})
    /\ notified' = {}
    /\ sent' = <<>>
    /\ UNCHANGED <<powerProperties, dataReads, onOffProperties, plugIntervals, plugValue, lastState, plugPolls,
                   plugPending, pollLog,
                   lightVars, probeVars>>
    /\ last' = Step("PlugCommandResponse", k, r)
    /\ asked' = <<>>
    /\ unhandled' = {}
    /\ sameValue' = FALSE

PlugNext ==
    \/ PlugStartPolling
    \/ PlugPoll
    \/ \E d \in DataResponses : UpdatePowerProperties(d)
    \/ \E k \in PlugIdx :
          \E r \in PlugStatusResponses(onOffProperties[k].channel) :
              UpdateValueResponse(k, r)
    \/ \E k \in PlugIdx : \E v \in {Bool(TRUE), Bool(FALSE)} :
          PlugSetValue(k, v)
    \/ PlugIssueSet
    \/ \E k \in PlugIdx : \E r \in CommandResponses : PlugCommandResponse(k, r)

\* the poll cycle alone: no writes
CycleNext ==
    \/ PlugStartPolling
    \/ PlugPoll
    \/ \E d \in DataResponses : UpdatePowerProperties(d)
    \/ \E k \in PlugIdx :
          \E r \in PlugStatusResponses(onOffProperties[k].channel) :
              UpdateValueResponse(k, r)

\* ------------------------------------------------------------------------
\* Channel probe: OnOffProperty.getAvailableChannels / isAvailable
\* ------------------------------------------------------------------------
\* the loop runs for (let i = 1; i < 10; i++)
ProbeLimit == 10

\* `POWER${channel}`
ProbeCommand(channel) == "POWER" \o ToString(channel)

\* mutant: any status the device reports counts as available
IsAvailableStatusAnyValue(status) == status # Undefined

\* status === 'ON' || status === 'OFF'
IsAvailableStatus(status) == status = Str("ON") \/ status = Str("OFF")

\* isAvailable on a parsed object
IsAvailable(json, channel) == IsAvailableStatus(Get(json, ProbeCommand(channel)))

\* what the status read of the probe for index i can come back with
ProbeResponses(i) ==
    {TransportError, JsonNull(200),
     JsonObj(200, EmptyObj),
     JsonObj(200, Obj1(ProbeCommand(i), Str("ON"))),
     JsonObj(200, Obj1(ProbeCommand(i), Str("OFF"))),
     JsonObj(200, Obj1(ProbeCommand(i), Str("on")))}

ProbeInit ==
    /\ probePc = "probing"
    /\ probeI = 1
    /\ probeChannels = <<>>
    /\ probeAsked = <<>>
    /\ probeAnswers = <<>>
    /\ notified = {}
    /\ sent = <<>>
    /\ logged = {}
    /\ last = Step("constructor", "", NoResponse)
    /\ asked = <<>>
    /\ unhandled = {}
    /\ sameValue = FALSE

\* one iteration of the loop: isAvailable(host, password, i) and the push;
\* a rejected await in isAvailable rejects getAvailableChannels
ProbeChannel(r) ==
    /\ probePc = "probing"
    /\ probeAsked' = Append(probeAsked, ProbeCommand(probeI))
    /\ probeAnswers' = Append(probeAnswers, r)
    /\ IF r.kind = "object"
       THEN /\ IF IsAvailable(r.body, probeI)
               THEN /\ probeChannels' = Append(probeChannels, probeI)
                    /\ logged' = {"detected"}
               ELSE /\ probeChannels' = probeChannels
                    /\ logged' = {"not available"}
            /\ probeI' = probeI + 1
            /\ probePc' = IF probeI + 1 < ProbeLimit THEN "probing"
                          ELSE "returned"
       ELSE /\ probePc' = "rejected"
            /\ logged' = {}
            /\ UNCHANGED <<probeI, probeChannels>>
    /\ notified' = {}
    /\ sent' = <<>>
    /\ UNCHANGED <<lightVars, plugVars>>
    /\ last' = Step("ProbeChannel", probeI, r)
    /\ asked' = <<ProbeCommand(probeI)>>
    /\ unhandled' = {}
    /\ sameValue' = FALSE

\* new PowerPlug(..., channels) with the sequence the probe returned, up to
\* the creation of the On/Off properties
ConstructPlug(multiChannelRelay) ==
    /\ probePc = "returned"
    /\ probePc' = "constructed"
    /\ onOffProperties' = PlugOnOffProperties(multiChannelRelay, probeChannels)
    /\ plugValue' = [k \in DOMAIN onOffProperties' |-> Undefined]
    /\ lastState' = [k \in DOMAIN onOffProperties' |-> Undefined]
    /\ plugPolls' = [k \in DOMAIN onOffProperties' |-> 0]
    /\ plugCmds' = [k \in DOMAIN onOffProperties' |-> 0]
    /\ logged' = IF multiChannelRelay /\ Len(probeChannels) > 0
                 THEN {"creating"} ELSE {}
    /\ notified' = {}
    /\ sent' = <<>>
    /\ UNCHANGED <<plugIntervals, plugPending, pollLog, powerProperties,
                   dataReads,
                   probeI, probeChannels, probeAsked, probeAnswers,
                   lightVars>>
    /\ last' = Step("PowerPlug", "", Bool(multiChannelRelay))
    /\ asked' = <<>>
    /\ unhandled' = {}
    /\ sameValue' = FALSE

ProbeNext ==
    \/ \E r \in ProbeResponses(probeI) : ProbeChannel(r)
    \/ \E m \in BOOLEAN : ConstructPlug(m)

\* ------------------------------------------------------------------------
\* Specifications
\* ------------------------------------------------------------------------
vars == <<lightVars, plugVars, probeVars, outVars>>

\* the parts a specification does not exercise stay as constructed
LightIdle ==
    /\ variant = "PowerPlug"
    /\ properties = {}
    /\ intervals = [p \in LightIds |-> 0]
    /\ useWhiteLedInColorMode = FALSE
    /\ value = [p \in LightIds |-> Undefined]
    /\ channels = 0
    /\ polls = [p \in LightIds |-> 0]
    /\ setPending = <<>>
    /\ cmds = [p \in Writable |-> 0]
    /\ exercised = {}

PlugIdle ==
    /\ onOffProperties = <<>>
    /\ plugIntervals = 0
    /\ plugValue = <<>>
    /\ lastState = <<>>
    /\ plugPolls = <<>>
    /\ plugPending = <<>>
    /\ plugCmds = <<>>
    /\ pollLog = <<>>
    /\ powerProperties = <<>>
    /\ dataReads = 0

ProbeIdle ==
    /\ probePc = "idle"
    /\ probeI = 1
    /\ probeChannels = <<>>
    /\ probeAsked = <<>>
    /\ probeAnswers = <<>>

InitLight == LightInit /\ PlugIdle /\ ProbeIdle
SpecLight == InitLight /\ [][LightNext]_vars

InitPlug == PlugInit /\ LightIdle /\ ProbeIdle
SpecPlug == InitPlug /\ [][PlugNext]_vars

\* the poll cycle of plugs with telemetry
InitCycle == CycleInit /\ LightIdle /\ ProbeIdle
SpecCycle == InitCycle /\ [][CycleNext]_vars

\* a device is a light of one of the variants or a plug
Init == InitLight \/ InitPlug
Next == LightNext \/ PlugNext
Spec == Init /\ [][Next]_vars

InitProbe == ProbeInit /\ LightIdle /\ PlugIdle
SpecProbe == InitProbe /\ [][ProbeNext]_vars

\* ------------------------------------------------------------------------
\* Properties
\* ------------------------------------------------------------------------
\* the status read failed in transport, or its body was no JSON
FailedRead(r) == r.kind \in {"reject", "badjson"}

\* the device answered a command with a non-200 status or a WARNING body
NotAccepted(r) ==
    /\ r.kind # "reject"
    /\ \/ r.status # 200
       \/ r.kind = "object" /\ Truthy(Get(r.body, "WARNING"))

\* the field each light poll callback reads from the parsed response
ExpectedField(p) ==
    CASE p = "on" -> "POWER"
      [] p = "brightness" -> "Dimmer"
      [] p = "color" -> "Color"
      [] p = "colorTemperature" -> "CT"

\* C1: a poll whose status read fails in transport or whose body cannot be
\* parsed leaves the cached value of the polled property (light or plug) as
\* it was and emits no notification.
C1_FailedPollKeepsCache ==
    [][/\ (last'.op = "PollResponse" /\ FailedRead(last'.input))
              => (value' = value /\ notified' = {})
       /\ (last'.op = "UpdateValueResponse" /\ FailedRead(last'.input))
              => (plugValue' = plugValue /\ lastState' = lastState
                  /\ notified' = {})]_vars

\* a poll of a light property that already has a cached value has failed
C1_Witness ==
    /\ last.op = "PollResponse"
    /\ FailedRead(last.input)
    /\ value[last.prop] # Undefined

\* C2: a command response with a non-200 status, or a 200 response whose
\* body has a WARNING field, leaves the cached value as the write (or a
\* later poll) set it: the optimistic write is not rolled back.
C2_WriteNotRolledBack ==
    [][/\ (last'.op = "CommandResponse" /\ NotAccepted(last'.input))
              => (value' = value /\ notified' = {})
       /\ (last'.op = "PlugCommandResponse" /\ NotAccepted(last'.input))
              => (plugValue' = plugValue /\ notified' = {})]_vars

\* On/Off was written true, the command came back 500, the cache is true
C2_Witness ==
    /\ last.op = "CommandResponse"
    /\ last.prop = "on"
    /\ last.input = JsonObj(500, EmptyObj)
    /\ value["on"] = Bool(TRUE)

\* C3: a light poll (On/Off, Brightness, Color, Color Temperature) whose
\* parsed response lacks the expected field leaves the cached value
\* unchanged and writes nothing to the cache.
C3_MissingFieldKeepsCache ==
    [][(/\ last'.op = "PollResponse"
        /\ last'.prop \in Writable
        /\ last'.input.kind = "object"
        /\ ExpectedField(last'.prop) \notin DOMAIN last'.input.body)
           => (value' = value /\ notified' = {})]_vars

\* the latest entry of pollLog before i for the same property, 0 if none
PrevPoll(i) ==
    LET earlier == {j \in 1..(i - 1) : pollLog[j].prop = pollLog[i].prop}
    IN  IF earlier = {} THEN 0
        ELSE CHOOSE j \in earlier : \A h \in earlier : h <= j

\* C4: among the successful polls of a plug On/Off property, taken in the
\* order their responses are processed, a poll emits a notification exactly
\* when it is the first of a run reading the same boolean: the first poll,
\* or one whose predecessor read the opposite value.
C4_OneNotificationPerRun ==
    \A i \in 1..Len(pollLog) :
        pollLog[i].notified <=>
            (PrevPoll(i) = 0 \/ pollLog[PrevPoll(i)].read # pollLog[i].read)

\* three polls of one property read the same value; only the first notified
C4_Witness ==
    /\ Len(pollLog) = 3
    /\ \A i \in 1..3 : pollLog[i].prop = 1 /\ pollLog[i].read = TRUE
    /\ pollLog[1].notified
    /\ ~pollLog[2].notified
    /\ ~pollLog[3].notified

\* the boolean a plug poll reads from the parsed response r
PlugRead(r) == Bool(Get(r.body, "POWER") = Str("ON"))

\* C5: a successful poll of a plug On/Off property emits a notification and
\* updates the cache if and only if the value read differs from the cached
\* value at the moment the response is processed.
C5_NotifyIffDiffersFromCache ==
    [][(last'.op = "UpdateValueResponse" /\ last'.input.kind = "object")
           => LET k == last'.prop
                  v == PlugRead(last'.input)
              IN  /\ (notified' # {}) <=> (v # plugValue[k])
                  /\ plugValue'[k] = v]_vars

\* C6: a transport error on the status query for index i leaves channel i
\* out and the probe goes on with index i + 1 instead of failing.
C6_TransportErrorSkipsChannel ==
    [][(last'.op = "ProbeChannel" /\ last'.input = TransportError)
           => /\ probePc' # "rejected"
              /\ probeI' = probeI + 1
              /\ probeChannels' = probeChannels]_vars

\* the indices whose answer carried POWER{i} as exactly "ON" or "OFF"
AnsweredOnOff ==
    {i \in 1..Len(probeAnswers) :
        /\ probeAnswers[i].kind = "object"
        /\ ProbeCommand(i) \in DOMAIN probeAnswers[i].body
        /\ probeAnswers[i].body[ProbeCommand(i)] \in {Str("ON"), Str("OFF")}}

\* C7: when every probe request succeeds, getAvailableChannels has issued
\* exactly one query POWER{i} per index 1..9, in order, and returns exactly
\* the indices answered "ON" or "OFF", strictly ascending.
C7_ProbeReturnsAvailable ==
    probePc = "returned" =>
        /\ probeAsked = [i \in 1..9 |-> ProbeCommand(i)]
        /\ {probeChannels[n] : n \in 1..Len(probeChannels)} = AnsweredOnOff
        /\ \A n \in 1..(Len(probeChannels) - 1) :
               probeChannels[n] < probeChannels[n + 1]

\* the probe returned the sparse sequence 1, 3
C7_Witness ==
    /\ probePc = "returned"
    /\ probeChannels = <<1, 3>>

\* the colour string a Color status read carries ("" when it carries none)
RawColor(r) ==
    IF r.kind = "object" /\ Truthy(Get(r.body, "Color"))
    THEN Get(r.body, "Color")[2]
    ELSE ""

\* C8: once the channel width was inferred as 3, no white-channel logic is
\* applied: a successful Color read caches '#' and the lower-cased first
\* six characters, and a Color write is sent unchanged.
C8_Width3NoWhiteLogic ==
    [][channels = 3 =>
          /\ (last'.op = "PollResponse" /\ last'.prop = "color"
                  /\ Parsed(last'.input))
                 => value'["color"] =
                        Str("#" \o ToLowerCase(
                                Substring(RawColor(last'.input), 0, 6)))
          /\ (last'.op = "IssueSet" /\ last'.prop = "color")
                 => sent' = <<Command("Color", last'.input[2])>>]_vars

\* C9: a Color write of #rrggbb is sent as '#000000' followed by rr if and
\* only if useWhiteLedInColorMode is enabled, the inferred channel width is
\* greater than 3 and rr = gg = bb; otherwise it is sent unchanged.
C9_WhiteLedRewrite ==
    [][(last'.op = "IssueSet" /\ last'.prop = "color")
           => LET v == last'.input[2]
                  rr == Substring(v, 1, 3)
                  gg == Substring(v, 3, 5)
                  bb == Substring(v, 5, 7)
              IN  sent' = <<Command("Color",
                      IF useWhiteLedInColorMode /\ channels > 3
                             /\ rr = gg /\ gg = bb
                      THEN "#000000" \o rr
                      ELSE v)>>]_vars

\* #808080 was written to a four-channel light and went out as white = 80
C9_Witness ==
    /\ last.op = "IssueSet"
    /\ last.input = Str("#808080")
    /\ channels = 4
    /\ sent = <<Command("Color", "#00000080")>>

\* C10: a successful Color poll caches '#' and the lower-cased white byte
\* three times when the device's channel width is 4 and the read is 8 hex
\* characters starting with 000000; any other successful read caches '#'
\* and the lower-cased first six characters.
C10_ColorReadDisplay ==
    [][(last'.op = "PollResponse" /\ last'.prop = "color"
            /\ Parsed(last'.input))
           => LET color == RawColor(last'.input)
              IN  value'["color"] =
                      Str("#" \o ToLowerCase(
                          IF channels' = 4 /\ Len(color) = 8
                                 /\ Substring(color, 0, 6) = "000000"
                          THEN Repeat3(Substring(color, 6, 8))
                          ELSE Substring(color, 0, 6)))]_vars

\* a write came back as a failure: the transport threw, the status was not
\* 200, the body carried a WARNING or could not be parsed
WriteFailure(r) == r.kind \in {"reject", "badjson"} \/ NotAccepted(r)

\* C11: a write on a writable property (light or plug) raises nothing that
\* is not caught inside the property, whatever the outcome of the local
\* caching and of the remote command, and every failure of the command
\* (transport exception, non-200 status, WARNING body, unparseable body)
\* shows in the debug log.
C11_WriteFailuresCaughtAndLogged ==
    [][/\ last'.op \in {"SetValue", "IssueSet", "CommandResponse",
                        "PlugSetValue", "PlugIssueSet", "PlugCommandResponse"}
              => unhandled' = {}
       /\ (/\ last'.op \in {"CommandResponse", "PlugCommandResponse"}
           /\ WriteFailure(last'.input))
              => logged' # {}]_vars

\* the status field a poll callback of the light reads
StatusField(p) == IF p = "colorMode" THEN "Color" ELSE ExpectedField(p)

\* a status read of the light that came back with the field it asks for
GoodRead(p, r) == r.kind = "object" /\ StatusField(p) \in DOMAIN r.body

\* v is the value the poll callback of p makes of the response r
PollCarries(p, r, ch, v) == \E o \in PollOutcomes(p, r, ch) : o.updates = <<v>>

\* as far as the bounds of the model go, a tick may poll light property p
MayPoll(p) ==
    /\ setPending = <<>>
    /\ p \in properties
    /\ intervals[p] > 0
    /\ LightInFlight < MaxInFlight
    /\ Exercisable(exercised \cup {p})

\* as far as the bounds of the model go, a tick may poll plug property k
MayUpdateValue(k) ==
    /\ plugPending = <<>>
    /\ plugIntervals > 0
    /\ PlugInFlight < MaxInFlight
    /\ dataReads < MaxInFlight
    /\ Len(pollLog) + SumTo(plugPolls, Len(onOffProperties))
           + Len(onOffProperties) <= MaxPolls

PlugOverlap(k) ==
    plugPolls[k] + plugCmds[k]
        + (IF plugPending # <<>> /\ plugPending[1].prop = k THEN 1 ELSE 0)

\* C13: when several operations on one property are in flight, the cached
\* value after each processed event is the value that event carries: a poll
\* response processed after a write replaces the written value, whichever
\* was issued first.
C13_LastProcessedWins ==
    [][/\ (last'.op = "PollResponse" /\ GoodRead(last'.prop, last'.input))
              => PollCarries(last'.prop, last'.input, channels,
                             value'[last'.prop])
       /\ (last'.op = "SetValue" /\ Accepts(last'.prop, last'.input))
              => value'[last'.prop] = last'.input
       /\ (/\ last'.op = "UpdateValueResponse"
           /\ last'.input.kind = "object"
           /\ PlugOverlap(last'.prop) >= 2)
              => plugValue'[last'.prop] = PlugRead(last'.input)
       /\ last'.op = "PlugSetValue"
              => plugValue'[last'.prop] = last'.input]_vars

\* a Color poll whose response carries a colour string
ColorRead ==
    /\ last.op = "PollResponse"
    /\ last.prop = "color"
    /\ GoodRead("color", last.input)
    /\ IsStr(Get(last.input.body, "Color"))

\* C14: the channel width of the Color property is 0 until the first Color
\* read that carries a colour string, is set from that string (6 hex
\* characters give 3, 8 give 4), and once nonzero is changed by no later
\* read of any length, failed read or write.
C14_ChannelWidthFrozen ==
    [][/\ channels # 0 => channels' = channels
       /\ (channels = 0 /\ ColorRead')
              => /\ Len(RawColor(last'.input)) = 6 => channels' = 3
                 /\ Len(RawColor(last'.input)) = 8 => channels' = 4
       /\ (channels = 0 /\ ~ColorRead') => channels' = 0]_vars

\* the width was inferred as 3 and a later read of 8 characters, after a
\* write, has left it at 3
C14_Witness ==
    /\ ColorRead
    /\ RawColor(last.input) = "00000080"
    /\ channels = 3
    /\ cmds["color"] > 0

\* C15: with multi-channel support enabled and a non-empty probed sequence
\* the plug has one On/Off property per detected channel, with pairwise
\* distinct ids: 'on' for the first channel of the sequence and 'on{n}' for
\* every later channel n, also when the sequence does not start at 1.
C15_OnePropertyPerChannel ==
    (/\ last.op = "PowerPlug"
     /\ last.input = Bool(TRUE)
     /\ probeChannels # <<>>)
        => /\ Len(onOffProperties) = Len(probeChannels)
           /\ \A j, k \in DOMAIN onOffProperties :
                  j # k => onOffProperties[j].id # onOffProperties[k].id
           /\ onOffProperties[1].id = "on"
           /\ \A k \in 2..Len(onOffProperties) :
                  onOffProperties[k].id = "on" \o ToString(probeChannels[k])

\* C16: the plug has the single On/Off property 'on' of the unnamed channel
\* (command 'Power') whenever multi-channel support is disabled or the
\* probe found no channel beyond the first (nothing, or channel 1 only);
\* properties of numbered channels exist only when further channels were
\* found.
C16_SingleUnnamedChannel ==
    last.op = "PowerPlug"
        => /\ (last.input = Bool(FALSE) \/ probeChannels \in {<<>>, <<1>>})
                  => /\ onOffProperties = <<[id |-> "on", channel |-> ""]>>
                     /\ PowerCommand(onOffProperties[1].channel) = "Power"
           /\ (\E k \in DOMAIN onOffProperties :
                   onOffProperties[k].channel # "")
                  => /\ last.input = Bool(TRUE)
                     /\ \E n \in DOMAIN probeChannels : probeChannels[n] # 1

\* C17: every poll of a light property that reads its field updates the
\* cache and emits a notification, also when the value read is the value
\* already cached.
C17_EveryPollNotifies ==
    [][(last'.op = "PollResponse" /\ GoodRead(last'.prop, last'.input))
           => /\ notified' = {last'.prop}
              /\ PollCarries(last'.prop, last'.input, channels,
                             value'[last'.prop])]_vars

\* a poll read the value that was cached already, and notified
C17_Witness ==
    /\ last.op = "PollResponse"
    /\ GoodRead(last.prop, last.input)
    /\ sameValue
    /\ notified = {last.prop}

\* C18: a Color Mode poll issues a 'Color' status read of its own and caches
\* 'temperature' when the first six hex characters read are 000000 and
\* 'color' otherwise; it leaves the cached value and the channel width of
\* the Color property as they are and its result does not depend on them.
C18_ColorModeOwnRead ==
    [][/\ (last'.op = "StartPoll" /\ last'.prop = "colorMode")
              => /\ asked' = <<"Color">>
                 /\ polls'["colorMode"] = polls["colorMode"] + 1
                 /\ polls'["color"] = polls["color"]
       /\ (last'.op = "PollResponse" /\ last'.prop = "colorMode")
              => /\ value'["color"] = value["color"]
                 /\ channels' = channels
                 /\ (/\ GoodRead("colorMode", last'.input)
                     /\ IsStr(Get(last'.input.body, "Color")))
                        => /\ notified' = {"colorMode"}
                           /\ value'["colorMode"] =
                                  IF Substring(RawColor(last'.input), 0, 6)
                                         = "000000"
                                  THEN Str("temperature")
                                  ELSE Str("color")]_vars

\* the Color property has cached a colour of three channels, and a Color
\* Mode poll that read 00000080 cached 'temperature' beside it
C18_Witness ==
    /\ last.op = "PollResponse"
    /\ last.prop = "colorMode"
    /\ value["colorMode"] = Str("temperature")
    /\ value["color"] = Str("#00ff00")
    /\ channels = 3

\* C19: one call of startPolling registers one interval for every property
\* the variant exposes, its own and its ancestors', and none for any other.
C19_StartPollingRegistersOnce ==
    [][last'.op = "StartPolling"
           => \A p \in LightIds :
                  intervals'[p] =
                      intervals[p] + (IF p \in properties THEN 1 ELSE 0)]_vars

\* startPolling was called on a ColorCtLight: five intervals, one each
C19_Witness ==
    /\ last.op = "StartPolling"
    /\ variant = "ColorCtLight"
    /\ \A p \in LightIds : intervals[p] = 1

\* C20: the property map of a light holds the composed set of its variant,
\* after construction and after every later operation.
C20_PropertyMap ==
    variant \in Variants
        => properties =
               CASE variant = "DimmableLight" -> {"on", "brightness"}
                 [] variant = "ColorTemperatureLight" ->
                        {"on", "brightness", "colorTemperature"}
                 [] variant = "ColorLight" -> {"on", "brightness", "color"}
                 [] variant = "ColorCtLight" ->
                        {"on", "brightness", "color", "colorTemperature",
                         "colorMode"}

\* a ColorCtLight has been polled and still holds its five properties
C20_Witness ==
    /\ variant = "ColorCtLight"
    /\ last.op = "PollResponse"
    /\ Cardinality(properties) = 5

\* every poll of plug property k recorded so far read v: as far as the
\* polls tell, the device's state has been v all along
SteadyAt(k, v) ==
    \A i \in 1..Len(pollLog) :
        pollLog[i].prop = k => Bool(pollLog[i].read) = v

\* C21: for every On/Off property, of a light or of a plug, while the
\* device's state stays s and polls succeed the cache ends up at s and
\* stays there: a successful poll that reads s leaves the cache at s,
\* whatever was written or polled before, so that after a write of the
\* opposite value the device did not apply the next successful poll
\* restores the cache to s.
C21_PollRestoresDeviceState ==
    [][/\ (/\ last'.op = "PollResponse"
           /\ last'.prop = "on"
           /\ GoodRead("on", last'.input))
              => value'["on"] = Bool(last'.input.body["POWER"] = Str("ON"))
       /\ (/\ last'.op = "UpdateValueResponse"
           /\ last'.input.kind = "object"
           /\ SteadyAt(last'.prop, PlugRead(last'.input)))
              => plugValue'[last'.prop] = PlugRead(last'.input)]_vars

\* C22: a poll of the plug On/Off property of numbered channel n caches
\* true exactly when the device reports ON under the key POWER{n}, the key
\* the probe found the channel by, and false exactly when it reports OFF.
C22_NumberedChannelKey ==
    [][(/\ last'.op = "UpdateValueResponse"
        /\ last'.input.kind = "object"
        /\ onOffProperties[last'.prop].channel # ""
        /\ ("POWER" \o onOffProperties[last'.prop].channel)
               \in DOMAIN last'.input.body)
           => plugValue'[last'.prop] =
                  Bool(last'.input.body[
                           "POWER" \o onOffProperties[last'.prop].channel]
                       = Str("ON"))]_vars

\* C24: in every write the value is cached before the command is issued,
\* the command is issued once per write and only after the local caching
\* succeeded; a value the local caching rejects sends no command.
C24_CacheThenOneCommand ==
    [][/\ sent' # <<>>
              => /\ last'.op \in {"IssueSet", "PlugIssueSet"}
                 /\ Len(sent') = 1
       /\ last'.op = "IssueSet"
              => /\ setPending =
                        <<[prop |-> last'.prop, value |-> last'.input]>>
                 /\ value[last'.prop] = last'.input
                 /\ setPending' = <<>>
                 /\ cmds'[last'.prop] = cmds[last'.prop] + 1
       /\ last'.op = "PlugIssueSet"
              => /\ plugPending =
                        <<[prop |-> last'.prop, value |-> last'.input]>>
                 /\ plugValue[last'.prop] = last'.input
                 /\ plugPending' = <<>>
                 /\ plugCmds'[last'.prop] = plugCmds[last'.prop] + 1
       /\ (\E p \in Writable : cmds'[p] > cmds[p]) => last'.op = "IssueSet"
       /\ (\E k \in PlugIdx : plugCmds'[k] > plugCmds[k])
              => last'.op = "PlugIssueSet"
       /\ setPending' \notin {<<>>, setPending}
              => /\ last'.op = "SetValue"
                 /\ Accepts(last'.prop, last'.input)
                 /\ value'[last'.prop] = last'.input
                 /\ setPending = <<>>
       /\ plugPending' \notin {<<>>, plugPending}
              => /\ last'.op = "PlugSetValue"
                 /\ plugValue'[last'.prop] = last'.input
                 /\ plugPending = <<>>
       /\ (last'.op = "SetValue" /\ ~Accepts(last'.prop, last'.input))
              => /\ setPending' = <<>>
                 /\ sent' = <<>>
                 /\ cmds' = cmds
                 /\ value' = value]_vars

\* the local caching rejected a colour temperature of 7000 K: the error is
\* logged, nothing is pending and no command is in flight
C24_Witness ==
    /\ last.op = "SetValue"
    /\ last.input = Num(7000)
    /\ "error" \in logged
    /\ setPending = <<>>
    /\ cmds["colorTemperature"] = 0

\* C23: a plug poll cycle whose telemetry sample lacks the key of a
\* property (Voltage, Current, Power or the temperature sensor's key) leaves
\* that property's cache unchanged, still updates the properties whose keys
\* are present, and completes without raising an error; this includes the
\* temperature property when the temperature flag is enabled.
C23_MissingKeysSkipped ==
    [][(last'.op = "UpdatePowerProperties" /\ last'.input.kind = "sample")
           => /\ \A n \in DOMAIN powerProperties :
                     powerProperties'[n] =
                         IF DataKey(n) \in DOMAIN last'.input.body
                         THEN last'.input.body[DataKey(n)]
                         ELSE powerProperties[n]
              /\ \A n \in DOMAIN powerProperties :
                     DataKey(n) \in DOMAIN last'.input.body
                         <=> n \in notified'
              /\ unhandled' = {}]_vars

\* C25: within one plug poll cycle the status reads of all channels and
\* the telemetry read are issued independently: the tick issues all of
\* them, each can come back whatever became of the others, a failed or
\* outstanding read of one channel leaves the other channels' reads and the
\* telemetry read to update their caches, and a failed telemetry read
\* leaves the channels' reads to update theirs.
C25_ReadsIndependent ==
    /\ [](plugPending = <<>>
            => /\ \A k \in PlugIdx :
                      plugPolls[k] > 0
                          => \A r \in PlugStatusResponses(
                                          onOffProperties[k].channel) :
                                 ENABLED UpdateValueResponse(k, r)
               /\ dataReads > 0
                      => \A d \in DataResponses :
                             ENABLED UpdatePowerProperties(d))
    /\ [][/\ last'.op = "PlugPoll"
                 => /\ \A k \in PlugIdx : plugPolls'[k] = plugPolls[k] + 1
                    /\ dataReads' = dataReads + 1
          /\ last'.op = "UpdateValueResponse"
                 => /\ \A j \in PlugIdx \ {last'.prop} :
                           /\ plugPolls'[j] = plugPolls[j]
                           /\ plugValue'[j] = plugValue[j]
                           /\ lastState'[j] = lastState[j]
                    /\ dataReads' = dataReads
                    /\ powerProperties' = powerProperties
                    /\ (/\ last'.input.kind = "object"
                        /\ lastState[last'.prop] # PlugRead(last'.input))
                           => plugValue'[last'.prop] = PlugRead(last'.input)
          /\ last'.op = "UpdatePowerProperties"
                 => /\ plugPolls' = plugPolls
                    /\ plugValue' = plugValue
                    /\ lastState' = lastState
                    /\ last'.input.kind = "sample"
                           => \A n \in DOMAIN powerProperties
                                          \cap {"voltage", "current", "power"} :
                                  DataKey(n) \in DOMAIN last'.input.body
                                      => powerProperties'[n] =
                                             last'.input.body[DataKey(n)]
         ]_vars

\* every status read of the first channel failed and none is outstanding,
\* the telemetry read that failed is the last step, and yet the second
\* channel's cache holds the state its read reported
C25_Witness ==
    /\ Len(onOffProperties) = 2
    /\ plugIntervals > 0
    /\ plugPolls[1] = 0
    /\ lastState[1] = Undefined
    /\ plugValue[1] = Undefined
    /\ lastState[2] # Undefined
    /\ plugValue[2] = lastState[2]
    /\ last.op = "UpdatePowerProperties"
    /\ last.input.kind = "reject"

====
